---- MODULE Spec2Model ----
(***************************************************************************)
(* Model of the dividend screener (src/main.py).                           *)
(*                                                                         *)
(* Dates are proleptic Gregorian ordinals (date.toordinal()): ordinal 1 is *)
(* Monday 0001-01-01, and timedelta(days=1) adds 1.  Prices and dividend   *)
(* rates are integers in cents, volumes are share counts, the dividend     *)
(* yield is kept in hundredths of a percent (the code rounds it to two     *)
(* decimals), and the dollar volume in whole dollars (the code rounds it   *)
(* to an integer).                                                         *)
(***************************************************************************)
EXTENDS Integers, Sequences, FiniteSets, TLC

VARIABLES
    pc,             \* position of the running function
    err,            \* name of the exception that ended the run, or "none"
    today,          \* main: datetime.now(), as a date
    start_date,     \* add_business_days: parameter
    business_days,  \* add_business_days: parameter
    current_date,   \* add_business_days: local
    days_added,     \* add_business_days: local
    range_start,    \* get_dividend_days: the start_date the caller passed
    gd_date,        \* get_dividend_days: the loop variable start_date
    end_date,       \* get_dividend_days: parameter
    dfs,            \* get_dividend_days: local list of per-day tables
    calls,          \* log of the get_dividend_day calls: <<date, ...>>
    df,             \* the table handed from get_dividend_days to update_stock_data
    idx,            \* update_stock_data: number of rows iterrows() has yielded
    fetched,        \* log of the ticker.history() calls: [ticker, res]
    out,            \* update_stock_data: the returned table
    report          \* export_screener: the rows printed and written to the CSV

vars == <<pc, err, today, start_date, business_days, current_date, days_added,
          range_start, gd_date, end_date, dfs, calls, df, idx, fetched, out,
          report>>

abdVars  == <<start_date, business_days, current_date, days_added>>
gddVars  == <<range_start, gd_date, end_date, dfs, calls>>
usdVars  == <<idx, fetched, out>>

(***************************************************************************)
(* Bounds of the model.                                                    *)
(***************************************************************************)
\* dates are drawn from 1..MaxDay
MaxDay == 9
\* add_business_days is called with 0..MaxN business days
MaxN == 10
\* rows of the tables update_stock_data and get_dividend_days are run on
MaxRows == 2
\* rows the calendar source returns over one run of main
MaxFetched == 1

(***************************************************************************)
(* Values.                                                                 *)
(***************************************************************************)
\* pandas NaT / float NaN: the missing marker
NaN == -1
\* float +inf (a positive rate divided by a zero close)
Inf == 1000000000
\* response.status_code == 200
StatusOK == 200
\* len(hist) < 6
MinObs == 6
\* rolling(50)
Window == 50
\* df["last_close_volume"] > 1_000_000
MinDollarVolume == 1000000
\* df["dividend_percentage"] > 3
MinYieldPct == 3
\* add_business_days(today, 10)
Lookahead == 10

\* a > b on floats: every comparison with NaN is False
Gt(a, b) == a # NaN /\ b # NaN /\ a > b

(***************************************************************************)
(* Floating point.  The prices, rates and products of update_stock_data    *)
(* are IEEE 754 doubles: a positive double is m * 2^e with a significand m *)
(* of 53 bits, and every operation rounds its exact result to the nearest  *)
(* double, ties to the even significand.  Significands and the exact       *)
(* intermediate results exceed the checker's integers and are kept as      *)
(* sequences of limbs.                                                     *)
(***************************************************************************)
\* the bits of a double's significand
Mantissa == 53

\* naturals beyond the checker's integers are kept as sequences of limbs in
\* base Base, least significant limb first, without high zero limbs
LimbBits == 14

Base == 2 ^ LimbBits

RECURSIVE ToLimbs(_)
\* the natural n as limbs
ToLimbs(n) == IF n = 0 THEN <<>> ELSE <<n % Base>> \o ToLimbs(n \div Base)

RECURSIVE ToInt(_)
\* the natural the limbs a stand for
ToInt(a) == IF a = <<>> THEN 0 ELSE a[1] + Base * ToInt(Tail(a))

RECURSIVE Norm(_)
\* a without its high zero limbs
Norm(a) ==
    IF a = <<>> THEN <<>>
    ELSE IF a[Len(a)] = 0 THEN Norm(SubSeq(a, 1, Len(a) - 1))
    ELSE a

Limb(a, i) == IF i <= Len(a) THEN a[i] ELSE 0

RECURSIVE AddFrom(_, _, _, _)
AddFrom(a, b, i, c) ==
    IF i > Len(a) /\ i > Len(b) THEN (IF c = 0 THEN <<>> ELSE <<c>>)
    ELSE LET t == Limb(a, i) + Limb(b, i) + c
         IN  <<t % Base>> \o AddFrom(a, b, i + 1, t \div Base)

\* a + b
BAdd(a, b) == AddFrom(a, b, 1, 0)

RECURSIVE SubFrom(_, _, _, _)
SubFrom(a, b, i, c) ==
    IF i > Len(a) THEN <<>>
    ELSE LET t == Limb(a, i) - Limb(b, i) - c
         IN  <<(t + Base) % Base>> \o SubFrom(a, b, i + 1, IF t < 0 THEN 1 ELSE 0)

\* a - b, for a >= b
BSub(a, b) == Norm(SubFrom(a, b, 1, 0))

RECURSIVE GeFrom(_, _, _)
GeFrom(a, b, i) ==
    IF i = 0 THEN TRUE
    ELSE IF a[i] # b[i] THEN a[i] > b[i]
    ELSE GeFrom(a, b, i - 1)

\* a >= b
BGe(a, b) == IF Len(a) # Len(b) THEN Len(a) > Len(b) ELSE GeFrom(a, b, Len(a))

RECURSIVE ScaleFrom(_, _, _, _)
ScaleFrom(a, k, i, c) ==
    IF i > Len(a) THEN (IF c = 0 THEN <<>> ELSE <<c>>)
    ELSE LET t == a[i] * k + c
         IN  <<t % Base>> \o ScaleFrom(a, k, i + 1, t \div Base)

\* a * k, for a single limb k > 0
BScale(a, k) == ScaleFrom(a, k, 1, 0)

\* a * 2^k
BShift(a, k) ==
    IF a = <<>> THEN <<>>
    ELSE [i \in 1..(k \div LimbBits) |-> 0] \o BScale(a, 2 ^ (k % LimbBits))

RECURSIVE MulFrom(_, _, _)
MulFrom(a, b, i) ==
    IF i > Len(a) THEN <<>>
    ELSE BAdd(IF a[i] = 0 THEN <<>> ELSE BScale(b, a[i]),
              BShift(MulFrom(a, b, i + 1), LimbBits))

\* a * b
BMul(a, b) == MulFrom(a, b, 1)

\* the number of bits of a
BitLen(a) ==
    IF a = <<>> THEN 0
    ELSE LimbBits * (Len(a) - 1)
         + (CHOOSE k \in 1..LimbBits : 2 ^ (k - 1) <= a[Len(a)] /\ a[Len(a)] < 2 ^ k)

\* bit k of a, bit 1 the lowest
BitAt(a, k) ==
    (Limb(a, (k - 1) \div LimbBits + 1) \div 2 ^ ((k - 1) % LimbBits)) % 2

\* one step of long division: bring down bit b, subtract d when it fits
DivStep(b, d, st) ==
    LET r1 == AddFrom(st.rem, st.rem, 1, b)
    IN  IF BGe(r1, d) THEN [quo |-> AddFrom(st.quo, st.quo, 1, 1), rem |-> BSub(r1, d)]
        ELSE [quo |-> AddFrom(st.quo, st.quo, 1, 0), rem |-> r1]

RECURSIVE DivRange(_, _, _, _, _)
\* long division over bits hi down to lo of n
DivRange(n, d, hi, lo, st) ==
    IF hi < lo THEN st
    ELSE IF hi = lo THEN DivStep(BitAt(n, hi), d, st)
    ELSE LET mid == (hi + lo) \div 2
         \* the upper half first, the lower half from the state it leaves
         IN  CHOOSE res \in {DivRange(n, d, mid, lo, upper) :
                             upper \in {DivRange(n, d, hi, mid + 1, st)}} : TRUE

\* n / d rounded to the nearest natural, ties to the even one (d > 0)
BRound(n, d) ==
    LET dm == DivRange(n, d, BitLen(n), 1, [quo |-> <<>>, rem |-> <<>>])
        twice == BAdd(dm.rem, dm.rem)
        up == IF twice = <<>> THEN FALSE
              ELSE IF ~BGe(twice, d) THEN FALSE
              ELSE IF ~BGe(d, twice) THEN TRUE
              ELSE BitAt(dm.quo, 1) = 1
    IN  IF up THEN BAdd(dm.quo, <<1>>) ELSE dm.quo

\* the double nearest to (n / d) * 2^e0, for naturals n and d > 0, as the
\* mantissa m of Mantissa bits and the exponent e: m * 2^e
FRound(n, d, e0) ==
    IF n = <<>> THEN [m |-> <<>>, e |-> 0]
    ELSE LET k == BitLen(n) - BitLen(d)
             \* n * 2^s / d lies in [2^52, 2^53)
             s1 == Mantissa - k
             big == IF s1 >= 0
                    THEN BGe(BShift(n, s1), BShift(d, Mantissa))
                    ELSE BGe(n, BShift(d, Mantissa - s1))
             s == IF big THEN s1 - 1 ELSE s1
             m == IF s >= 0 THEN BRound(BShift(n, s), d)
                  ELSE BRound(n, BShift(d, -s))
         IN  IF BitLen(m) > Mantissa
             THEN [m |-> BShift(<<1>>, Mantissa - 1), e |-> e0 - s + 1]
             ELSE [m |-> m, e |-> e0 - s]

\* the double nearest to a / b, for integers a >= 0 and b > 0: what a decimal
\* literal or an integer becomes
FRatio(a, b) == FRound(ToLimbs(a), ToLimbs(b), 0)

\* x / y
FDiv(x, y) == FRound(x.m, y.m, x.e - y.e)

\* x * y
FMul(x, y) == FRound(BMul(x.m, y.m), <<1>>, x.e + y.e)

\* rint(x), round(x): the nearest integer, ties to the even one
FRint(x) ==
    IF x.m = <<>> THEN 0
    ELSE IF x.e >= 0 THEN ToInt(BShift(x.m, x.e))
    ELSE ToInt(BRound(x.m, BShift(<<1>>, -x.e)))

\* date.weekday(): Monday is 0, Sunday is 6
weekday(d) == (d + 6) % 7

(***************************************************************************)
(* add_business_days                                                       *)
(***************************************************************************)
IsBusinessDayMut(d) == weekday(d) <= 5
\* current_date.weekday() < 5
IsBusinessDay(d) == weekday(d) < 5

\* one iteration of the while loop
ABD_Step ==
    /\ pc = "abd_loop"
    /\ days_added < business_days
    /\ current_date' = current_date + 1
    /\ days_added' = IF IsBusinessDay(current_date + 1)
                     THEN days_added + 1 ELSE days_added
    /\ UNCHANGED <<pc, err, today, start_date, business_days, gddVars, df,
                   usdVars, report>>

\* the loop condition fails: return current_date
ABD_Return ==
    /\ pc = "abd_loop"
    /\ ~(days_added < business_days)
    /\ pc' = "abd_returned"
    /\ UNCHANGED <<err, today, abdVars, gddVars, df, usdVars, report>>

(***************************************************************************)
(* get_dividend_day                                                        *)
(***************************************************************************)
\* str.contains(marker): marker occurs as a substring of the name
Contains(name, marker) ==
    \E i \in 1..Len(name) :
        /\ i + Len(marker) - 1 <= Len(name)
        /\ SubSeq(name, i, i + Len(marker) - 1) = marker

\* the companies of the calendar: symbol, display name, rate in cents
Companies ==
    { [symbol |-> <<"T">>,
       companyName |-> <<"T", " ", "I", "n", "c">>,
       dividend_Rate |-> 28247],
      [symbol |-> <<"B", "R", "K", ".", "B">>,
       companyName |-> <<"Q", "U", "A", "D", "R", "A", " ", "E", "T", "F">>,
       dividend_Rate |-> 0] }

\* the dividend_Ex_Date texts of the calendar: a date, or text that is none
RawDates ==
    { [text |-> "N/A", ord |-> 0] } \cup
    { [text |-> "m/d/Y", ord |-> d] : d \in {1, 2} }

\* the objects of data.calendar.rows
RawRows ==
    { [symbol |-> c.symbol, companyName |-> c.companyName,
       dividend_Rate |-> c.dividend_Rate, dividend_Ex_Date |-> t] :
      c \in Companies, t \in RawDates }

SeqsUpTo(S, n) == UNION { [1..k -> S] : k \in 0..n }

\* what requests.get can give for a calendar request carrying at most n
\* rows.  sent: the request got a response (else requests.get raises); status:
\* the status code; body: "rows" for a JSON object whose data.calendar.rows
\* is the list rows, "missing" for a JSON object lacking a key of that path,
\* "null" for JSON in which a value on the path (or the body itself) is not
\* an object, "text" for a body that is not JSON
Responses(n) ==
    { [sent |-> TRUE, status |-> StatusOK, body |-> "rows", rows |-> rs] :
        rs \in SeqsUpTo(RawRows, n) } \cup
    { [sent |-> TRUE, status |-> StatusOK, body |-> b, rows |-> <<>>] :
        b \in {"missing", "null", "text"} } \cup
    { [sent |-> TRUE, status |-> 503, body |-> b, rows |-> <<>>] :
        b \in {"missing", "text"} } \cup
    { [sent |-> FALSE, status |-> 0, body |-> "text", rows |-> <<>>] }

\* pd.to_datetime(..., errors="coerce")
to_datetime(raw) == IF raw.text = "m/d/Y" THEN raw.ord ELSE NaN

\* pd.DataFrame(): no rows and no columns
EmptyFrame == [cols |-> FALSE, rows |-> <<>>]

\* lines 62-71: the table of a non-empty list of rows
ParsedFrame(rows) ==
    [cols |-> TRUE,
     rows |-> [i \in 1..Len(rows) |->
                 LET r == rows[i]
                 IN  [index |-> i - 1,
                      symbol |-> r.symbol,
                      companyName |-> r.companyName,
                      dividend_Rate |-> r.dividend_Rate,
                      dividend_Ex_Date |-> to_datetime(r.dividend_Ex_Date),
                      adr |-> Contains(r.companyName, <<"A", "D", "R">>),
                      etf |-> Contains(r.companyName, <<"E", "T", "F">>),
                      bond |-> Contains(r.companyName, <<"B", "o", "n", "d">>)]]]

\* the body of get_dividend_day, given the outcome of its request: the
\* exception it raises, or "none" and the table it returns.  requests.get
\* raises when no response arrives; on status 200 response.json() raises on
\* a body that is not JSON, and the .get chain raises AttributeError on a
\* value that is no object; absent keys default to an empty list
get_dividend_day(resp) ==
    IF ~resp.sent THEN [raised |-> "ConnectionError", frame |-> EmptyFrame]
    ELSE IF resp.status # StatusOK THEN [raised |-> "none", frame |-> EmptyFrame]
    ELSE IF resp.body = "text"
    THEN [raised |-> "JSONDecodeError", frame |-> EmptyFrame]
    ELSE IF resp.body = "null"
    THEN [raised |-> "AttributeError", frame |-> EmptyFrame]
    ELSE IF resp.body = "missing" \/ resp.rows = <<>>
    THEN [raised |-> "none", frame |-> EmptyFrame]
    ELSE [raised |-> "none", frame |-> ParsedFrame(resp.rows)]

(***************************************************************************)
(* get_dividend_days                                                       *)
(***************************************************************************)
IsWeekdayMut(d) == weekday(d) < 6
\* start_date.weekday() < 5
IsWeekday(d) == weekday(d) < 5

RECURSIVE Flatten(_)
\* the rows of a list of tables, in list order
Flatten(ts) ==
    IF ts = <<>> THEN <<>> ELSE ts[1].rows \o Flatten(Tail(ts))

\* pd.concat(dfs, ignore_index=True) of a non-empty list
Concat(ts) ==
    LET rows == Flatten(ts)
    IN  [cols |-> \E i \in 1..Len(ts) : ts[i].cols,
         rows |-> [i \in 1..Len(rows) |-> [rows[i] EXCEPT !.index = i - 1]]]

\* a weekday of the range: call get_dividend_day and collect its table; an
\* exception of the call leaves get_dividend_days at once
GDD_Fetch(limit) ==
    /\ pc = "gdd_loop"
    /\ gd_date <= end_date
    /\ IsWeekday(gd_date)
    /\ \E resp \in Responses(limit - Len(Flatten(dfs))) :
          LET res == get_dividend_day(resp) IN
          IF res.raised # "none"
          THEN /\ pc' = "error"
               /\ err' = res.raised
               /\ dfs' = dfs
               /\ gd_date' = gd_date
          ELSE /\ pc' = pc
               /\ err' = err
               /\ dfs' = Append(dfs, res.frame)
               /\ gd_date' = gd_date + 1
    /\ calls' = Append(calls, gd_date)
    /\ UNCHANGED <<today, abdVars, range_start, end_date, df, usdVars, report>>

\* a Saturday or Sunday of the range: no call
GDD_Skip ==
    /\ pc = "gdd_loop"
    /\ gd_date <= end_date
    /\ ~IsWeekday(gd_date)
    /\ gd_date' = gd_date + 1
    /\ UNCHANGED <<pc, err, today, abdVars, range_start, end_date, dfs,
                   calls, df, usdVars, report>>

\* the loop is over: return pd.concat(dfs, ignore_index=True), which raises
\* ValueError ("No objects to concatenate") on an empty list
GDD_Concat ==
    /\ pc = "gdd_loop"
    /\ ~(gd_date <= end_date)
    /\ IF dfs = <<>>
       THEN /\ pc' = "error"
            /\ err' = "ValueError"
            /\ df' = df
       ELSE /\ pc' = "gdd_returned"
            /\ err' = err
            /\ df' = Concat(dfs)
    /\ UNCHANGED <<today, abdVars, gddVars, usdVars, report>>

(***************************************************************************)
(* update_stock_data                                                       *)
(***************************************************************************)
\* row.symbol.replace(".", "-")
Ticker(symbol) ==
    [i \in 1..Len(symbol) |-> IF symbol[i] = "." THEN "-" ELSE symbol[i]]

\* the price histories of the market-data source, by length, shape, latest
\* close (cents) and latest volume; k is the distance from the latest row
HistParams ==
    { [len |-> 0,          shape |-> "rise", last |-> 0,      vol |-> 0],
      [len |-> MinObs - 1, shape |-> "rise", last |-> 4900,   vol |-> 400000],
      [len |-> MinObs,     shape |-> "rise", last |-> 4900,   vol |-> 400000],
      [len |-> MinObs,     shape |-> "dip",  last |-> 4000,   vol |-> 25000],
      [len |-> Window,     shape |-> "fall", last |-> 941567, vol |-> 2000],
      [len |-> MinObs,     shape |-> "rise", last |-> 940000, vol |-> 2000],
      [len |-> MinObs,     shape |-> "fall", last |-> 0,      vol |-> 400000],
      [len |-> MinObs,     shape |-> "fall", last |-> 7,      vol |-> 350],
      [len |-> MinObs + 1, shape |-> "dip",  last |-> 250,    vol |-> 400001],
      [len |-> Window + 1, shape |-> "rise", last |-> 4900,   vol |-> 400000] }

CloseAt(p, k) ==
    CASE p.shape = "rise" -> p.last - 10 * k
      [] p.shape = "fall" -> p.last + 100 * k
      [] p.shape = "dip"  -> IF k = 4 THEN p.last - 100 ELSE p.last + 100 * k

HistOf(p) ==
    [i \in 1..p.len |-> [Close  |-> CloseAt(p, p.len - i),
                         Volume |-> p.vol + 1000 * (p.len - i)]]

\* what ticker.history() does: it returns a series, or it raises
HistoryResults ==
    { [raised |-> FALSE, hist |-> HistOf(p)] : p \in HistParams } \cup
    { [raised |-> TRUE, hist |-> <<>>] }

\* series.iloc[k] for a negative k: iloc[-1] is the last element
Iloc(s, k) == s[Len(s) + 1 + k]

RECURSIVE SumClose(_, _, _)
\* the sum of hist["Close"] over the positions a..b
SumClose(hist, a, b) ==
    IF a > b THEN 0 ELSE hist[a].Close + SumClose(hist, a + 1, b)

\* hist["Close"].rolling(50).mean().iloc[-1], times the window: NaN when the
\* series has fewer than 50 rows (min_periods defaults to the window)
RollingSumLast(hist) ==
    IF Len(hist) < Window THEN NaN
    ELSE SumClose(hist, Len(hist) - Window + 1, Len(hist))

\* round((rate / close) * 100, 2), in hundredths of a percent, for a rate
\* and a close given in cents.  The value is a numpy float64, whose round to
\* 2 decimals is rint(x * 100) / 100; float division by a zero close gives
\* inf, or nan for a zero rate
YieldPct(rate, close) ==
    IF close = 0 THEN (IF rate = 0 THEN NaN ELSE Inf)
    ELSE FRint(FMul(FMul(FDiv(FRatio(rate, 100), FRatio(close, 100)),
                         FRatio(100, 1)),
                    FRatio(100, 1)))

\* round(close * volume), in dollars, for a close given in cents
DollarVolume(close, volume) ==
    FRint(FMul(FRatio(close, 100), FRatio(volume, 1)))

\* the yields and dollar volumes of the rates, latest closes and latest
\* volumes of the model, computed once
YieldTable ==
    [p \in { <<c.dividend_Rate, h.last>> : c \in Companies, h \in HistParams }
        |-> YieldPct(p[1], p[2])]

DollarVolumeTable ==
    [p \in { <<h.last, h.vol>> : h \in HistParams } |-> DollarVolume(p[1], p[2])]

\* hist["Close"].iloc[-5]
Close5(hist) == Iloc(hist, -5).Close

TooShortMut(hist) == Len(hist) < MinObs - 1
\* hist.empty or len(hist) < 6
TooShort(hist) == hist = <<>> \/ Len(hist) < MinObs

\* the six columns set to 0.0 before the loop
WithDefaults(r) ==
    [index |-> r.index, symbol |-> r.symbol, companyName |-> r.companyName,
     dividend_Rate |-> r.dividend_Rate, dividend_Ex_Date |-> r.dividend_Ex_Date,
     adr |-> r.adr, etf |-> r.etf, bond |-> r.bond,
     Close |-> 0, Volume |-> 0, dividend_percentage |-> 0,
     last_close_volume |-> 0, close_5_days_ago |-> 0, SMA_50 |-> 0]

\* the df.at[index, ...] assignments of one loop iteration
Enrich(r, hist) ==
    [r EXCEPT !.Close = Iloc(hist, -1).Close,
              !.Volume = Iloc(hist, -1).Volume,
              !.SMA_50 = RollingSumLast(hist),
              !.dividend_percentage =
                  YieldTable[<<r.dividend_Rate, Iloc(hist, -1).Close>>],
              !.last_close_volume =
                  DollarVolumeTable[<<Iloc(hist, -1).Close, Iloc(hist, -1).Volume>>],
              !.close_5_days_ago = Close5(hist)]

\* the two columns derived over the whole table after the loop; SMA_50 holds
\* the mean times the window
WithFlags(r) ==
    [index |-> r.index, symbol |-> r.symbol, companyName |-> r.companyName,
     dividend_Rate |-> r.dividend_Rate, dividend_Ex_Date |-> r.dividend_Ex_Date,
     adr |-> r.adr, etf |-> r.etf, bond |-> r.bond,
     Close |-> r.Close, Volume |-> r.Volume,
     dividend_percentage |-> r.dividend_percentage,
     last_close_volume |-> r.last_close_volume,
     close_5_days_ago |-> r.close_5_days_ago, SMA_50 |-> r.SMA_50,
     roc_5_pos |-> Gt(r.Close, r.close_5_days_ago),
     above_SMA_50 |-> Gt(r.Close * Window, r.SMA_50)]

KeepRowMut(r) ==
    /\ r.last_close_volume >= MinDollarVolume
    /\ r.dividend_percentage # NaN
    /\ r.dividend_percentage >= MinYieldPct * 100
\* df["last_close_volume"] > 1_000_000, then df["dividend_percentage"] > 3
KeepRow(r) ==
    /\ Gt(r.last_close_volume, MinDollarVolume)
    /\ Gt(r.dividend_percentage, MinYieldPct * 100)

RECURSIVE SelectRows(_)
\* df[mask]: the rows the masks keep, in table order
SelectRows(rows) ==
    IF rows = <<>> THEN <<>>
    ELSE IF KeepRow(rows[1]) THEN <<rows[1]>> \o SelectRows(Tail(rows))
    ELSE SelectRows(Tail(rows))

Perms(n) == { f \in [1..n -> 1..n] : \A i, j \in 1..n : f[i] = f[j] => i = j }

DateOrderedMut(a, b) == TRUE
\* the order sort_values puts two keys in: ascending, NaT last
DateOrdered(a, b) == b = NaN \/ (a # NaN /\ a <= b)

\* the results sort_values(by="dividend_Ex_Date") may give: the sort is not
\* stable, so rows with equal dates come in any order
Sorted(rows) ==
    { [i \in 1..Len(rows) |-> rows[f[i]]] : f \in
        { g \in Perms(Len(rows)) :
            \A i \in 1..(Len(rows) - 1) :
                DateOrdered(rows[g[i]].dividend_Ex_Date,
                            rows[g[i + 1]].dividend_Ex_Date) } }

\* lines 164-169: the computed columns get their 0.0 defaults
USD_Start ==
    /\ pc = "usd_start"
    /\ df' = [df EXCEPT !.rows = [i \in 1..Len(df.rows) |-> WithDefaults(df.rows[i])]]
    /\ idx' = 0
    /\ fetched' = <<>>
    /\ pc' = "usd_loop"
    /\ UNCHANGED <<err, today, abdVars, gddVars, out, report>>

\* one iteration of the iterrows() loop: fetch the history of the row's
\* ticker, skip the row when it is too short, else set the row's columns
USD_Iter ==
    /\ pc = "usd_loop"
    /\ idx < Len(df.rows)
    /\ \E res \in HistoryResults :
          LET row == df.rows[idx + 1] IN
          /\ fetched' = Append(fetched, [ticker |-> Ticker(row.symbol), res |-> res])
          /\ IF res.raised
             THEN /\ pc' = "error"
                  /\ err' = "ProviderError"
                  /\ df' = df
             ELSE /\ pc' = pc
                  /\ err' = err
                  /\ df' = IF TooShort(res.hist) THEN df
                           ELSE [df EXCEPT !.rows[idx + 1] = Enrich(row, res.hist)]
    /\ idx' = idx + 1
    /\ UNCHANGED <<today, abdVars, gddVars, out, report>>

\* lines 189-195: derive the flags, filter, sort; sort_values raises KeyError
\* on a table that has no dividend_Ex_Date column
USD_Finish ==
    /\ pc = "usd_loop"
    /\ idx = Len(df.rows)
    /\ df' = [df EXCEPT !.rows = [i \in 1..Len(df.rows) |-> WithFlags(df.rows[i])]]
    /\ IF ~df.cols
       THEN /\ pc' = "error"
            /\ err' = "KeyError"
            /\ out' = out
       ELSE /\ pc' = "usd_returned"
            /\ err' = err
            /\ \E rows \in Sorted(SelectRows(df'.rows)) :
                  out' = [cols |-> TRUE, rows |-> rows]
    /\ UNCHANGED <<today, abdVars, gddVars, idx, fetched, report>>

(***************************************************************************)
(* export_screener                                                         *)
(***************************************************************************)
\* the renamed columns of one row, under its index value Date
Exported(r) ==
    [Date |-> r.dividend_Ex_Date, Ticker |-> r.symbol,
     companyName |-> r.companyName, DividPct |-> r.dividend_percentage,
     Volume |-> r.Volume, Close |-> r.Close, DividRate |-> r.dividend_Rate,
     Days5pos |-> r.roc_5_pos, MA50 |-> r.above_SMA_50,
     etf |-> r.etf, adr |-> r.adr, bond |-> r.bond]

\* rename, set_index("Date"), print, to_csv; set_index raises KeyError on a
\* table that has no Date column
Export ==
    /\ pc = "export"
    /\ IF ~out.cols
       THEN /\ pc' = "error"
            /\ err' = "KeyError"
            /\ report' = report
       ELSE /\ pc' = "done"
            /\ err' = err
            /\ report' = [i \in 1..Len(out.rows) |-> Exported(out.rows[i])]
    /\ UNCHANGED <<today, abdVars, gddVars, df, usdVars>>

(***************************************************************************)
(* main                                                                    *)
(***************************************************************************)
\* (today - timedelta(days=1)).date()
WindowStart(t) == t - 1

\* main calls add_business_days(today, 10)
Main_CallABD ==
    /\ pc = "main"
    /\ start_date' = today
    /\ business_days' = Lookahead
    /\ current_date' = today
    /\ days_added' = 0
    /\ pc' = "abd_loop"
    /\ UNCHANGED <<err, today, gddVars, df, usdVars, report>>

\* main calls get_dividend_days(today - 1 day, add_business_days(today, 10))
Main_CallGDD ==
    /\ pc = "abd_returned"
    /\ range_start' = WindowStart(today)
    /\ gd_date' = WindowStart(today)
    /\ end_date' = current_date
    /\ dfs' = <<>>
    /\ calls' = <<>>
    /\ pc' = "gdd_loop"
    /\ UNCHANGED <<err, today, abdVars, df, usdVars, report>>

\* main calls update_stock_data(df); the locals of get_dividend_days are gone
Main_CallUSD ==
    /\ pc = "gdd_returned"
    /\ dfs' = <<>>
    /\ pc' = "usd_start"
    /\ UNCHANGED <<err, today, abdVars, range_start, gd_date, end_date, calls,
                   df, usdVars, report>>

\* main calls export_screener(df)
Main_CallExport ==
    /\ pc = "usd_returned"
    /\ pc' = "export"
    /\ UNCHANGED <<err, today, abdVars, gddVars, df, usdVars, report>>

(***************************************************************************)
(* Specifications.                                                         *)
(***************************************************************************)
\* add_business_days(d, n) after lines 21-22, for every d and n of the bounds
InitABD ==
    /\ pc = "abd_loop"
    /\ err = "none" /\ today = 0
    /\ start_date \in 1..MaxDay
    /\ business_days \in 0..MaxN
    /\ current_date = start_date
    /\ days_added = 0
    /\ range_start = 0 /\ gd_date = 0 /\ end_date = 0
    /\ dfs = <<>> /\ calls = <<>>
    /\ df = EmptyFrame /\ idx = 0 /\ fetched = <<>>
    /\ out = EmptyFrame /\ report = <<>>

NextABD == ABD_Step \/ ABD_Return

SpecABD == InitABD /\ [][NextABD]_vars

\* get_dividend_days(start, end) after line 87, for every start and end
InitGDD ==
    /\ pc = "gdd_loop"
    /\ err = "none" /\ today = 0
    /\ start_date = 0 /\ business_days = 0 /\ current_date = 0 /\ days_added = 0
    /\ range_start \in 1..MaxDay
    /\ end_date \in 1..MaxDay
    /\ gd_date = range_start
    /\ dfs = <<>> /\ calls = <<>>
    /\ df = EmptyFrame /\ idx = 0 /\ fetched = <<>>
    /\ out = EmptyFrame /\ report = <<>>

NextGDD == GDD_Fetch(MaxRows) \/ GDD_Skip \/ GDD_Concat

SpecGDD == InitGDD /\ [][NextGDD]_vars

\* the tables get_dividend_days can return with at most n rows
Tables(n) ==
    { Concat(<<res.frame>>) :
        res \in { r \in { get_dividend_day(resp) : resp \in Responses(n) } :
                    r.raised = "none" } }

\* update_stock_data(df) on entry, for every table get_dividend_days returns
InitUSD ==
    /\ pc = "usd_start"
    /\ err = "none" /\ today = 0
    /\ start_date = 0 /\ business_days = 0 /\ current_date = 0 /\ days_added = 0
    /\ range_start = 0 /\ gd_date = 0 /\ end_date = 0
    /\ dfs = <<>> /\ calls = <<>>
    /\ df \in Tables(MaxRows)
    /\ idx = 0 /\ fetched = <<>>
    /\ out = EmptyFrame /\ report = <<>>

NextUSD == USD_Start \/ USD_Iter \/ USD_Finish

SpecUSD == InitUSD /\ [][NextUSD]_vars

\* main, for every day today can be
InitMain ==
    /\ pc = "main"
    /\ err = "none"
    /\ today \in 2..MaxDay
    /\ start_date = 0 /\ business_days = 0 /\ current_date = 0 /\ days_added = 0
    /\ range_start = 0 /\ gd_date = 0 /\ end_date = 0
    /\ dfs = <<>> /\ calls = <<>>
    /\ df = EmptyFrame /\ idx = 0 /\ fetched = <<>>
    /\ out = EmptyFrame /\ report = <<>>

NextMain ==
    \/ Main_CallABD \/ ABD_Step \/ ABD_Return
    \/ Main_CallGDD \/ GDD_Fetch(MaxFetched) \/ GDD_Skip \/ GDD_Concat
    \/ Main_CallUSD \/ USD_Start \/ USD_Iter \/ USD_Finish
    \/ Main_CallExport \/ Export

SpecMain == InitMain /\ [][NextMain]_vars

(***************************************************************************)
(* Properties.                                                             *)
(***************************************************************************)
\* d is a Monday, Tuesday, Wednesday, Thursday or Friday
MonFri(d) == weekday(d) \in {0, 1, 2, 3, 4}

\* the Monday-to-Friday dates of a..b
WeekdaysIn(a, b) == { d \in a..b : MonFri(d) }

\* C1: add_business_days(d, n) returns the n-th Monday-to-Friday date
\* strictly after d: exactly n weekdays lie in (d, result], the result is a
\* weekday when n > 0 and is d itself when n = 0 (also on a weekend day); and
\* the loop terminates: while it runs, at most two days are skipped per five
\* days counted, so it ends within n + 2 * (n \div 5 + 1) iterations.
C1_NthWeekday ==
    /\ pc = "abd_returned" =>
          /\ current_date >= start_date
          /\ Cardinality(WeekdaysIn(start_date + 1, current_date)) = business_days
          /\ business_days = 0 => current_date = start_date
          /\ business_days > 0 => MonFri(current_date)
    /\ pc = "abd_loop" =>
          /\ days_added <= business_days
          /\ current_date - start_date <= days_added + 2 * (days_added \div 5 + 1)

\* a Friday start and at least six business days: two weekends are passed
C1_Witness ==
    /\ pc = "abd_returned"
    /\ weekday(start_date) = 4
    /\ business_days >= 6
    /\ current_date = start_date + business_days + 4

\* a Saturday start and n = 0: the Saturday itself is returned
C1_WitnessZero ==
    /\ pc = "abd_returned"
    /\ weekday(start_date) = 5
    /\ business_days = 0
    /\ current_date = start_date

RECURSIVE RowsBefore(_, _)
\* the number of rows of the first i - 1 tables of ts
RowsBefore(ts, i) ==
    IF i <= 1 THEN 0 ELSE Len(ts[i - 1].rows) + RowsBefore(ts, i - 1)

\* a row without its index label
Payload(r) == [r EXCEPT !.index = 0]

\* C8: get_dividend_days calls the calendar fetch exactly once for each
\* Monday-to-Friday date of start..end, in ascending order, and for no other
\* date; the returned table holds the rows of the per-day tables in day
\* order, then within-day order, none dropped or merged.
C8_FetchPerWeekday ==
    /\ \A i \in 1..Len(calls) :
          /\ MonFri(calls[i])
          /\ range_start <= calls[i] /\ calls[i] <= end_date
    /\ \A i, j \in 1..Len(calls) : i < j => calls[i] < calls[j]
    /\ pc \in {"gdd_returned", "error"} =>
          \A d \in WeekdaysIn(range_start, end_date) :
             \E i \in 1..Len(calls) : calls[i] = d
    /\ pc = "gdd_returned" =>
          /\ Len(dfs) = Len(calls)
          /\ Len(df.rows) = RowsBefore(dfs, Len(dfs) + 1)
          /\ \A i \in 1..Len(dfs) : \A j \in 1..Len(dfs[i].rows) :
                Payload(df.rows[RowsBefore(dfs, i) + j]) = Payload(dfs[i].rows[j])

\* C5: on a range without a weekday get_dividend_days makes no fetch call
\* and returns an empty table rather than ending in an error.
C5_NoWeekdayRange ==
    (/\ pc \in {"gdd_returned", "error"}
     /\ WeekdaysIn(range_start, end_date) = {}) =>
        /\ calls = <<>>
        /\ pc = "gdd_returned"
        /\ df.rows = <<>>

\* the i-th row of the table is among the returned rows
InOut(i) == \E j \in 1..Len(out.rows) : out.rows[j].index = df.rows[i].index

\* C2: update_stock_data returns a row if and only if its dollar volume is
\* above 1,000,000 and its dividend yield % is above 3.0, both strictly;
\* every returned row is a row of the input, returned once.
C2_FilterExact ==
    pc = "usd_returned" =>
       /\ \A i \in 1..Len(df.rows) :
             InOut(i) <=>
                /\ df.rows[i].last_close_volume > 1000000
                /\ df.rows[i].dividend_percentage # NaN
                /\ df.rows[i].dividend_percentage > 300
       /\ \A j \in 1..Len(out.rows) :
             /\ out.rows[j].index + 1 \in 1..Len(df.rows)
             /\ out.rows[j] = df.rows[out.rows[j].index + 1]
             /\ out.rows[j].last_close_volume # 1000000
             /\ out.rows[j].dividend_percentage # 300
       /\ \A j, k \in 1..Len(out.rows) :
             out.rows[j].index = out.rows[k].index => j = k

\* a row with a dollar volume of exactly 1,000,000 is dropped next to a row
\* that is returned
C2_Witness ==
    /\ pc = "usd_returned"
    /\ \E i, k \in 1..Len(df.rows) :
          /\ df.rows[i].last_close_volume = 1000000
          /\ df.rows[i].dividend_percentage > 300
          /\ ~InOut(i)
          /\ InOut(k)

\* a row with a yield of exactly 3.0 is dropped next to a row that is returned
C2_WitnessYield ==
    /\ pc = "usd_returned"
    /\ \E i, k \in 1..Len(df.rows) :
          /\ df.rows[i].dividend_percentage = 300
          /\ df.rows[i].last_close_volume > 1000000
          /\ ~InOut(i)
          /\ InOut(k)

\* a row whose yield 282.47 / 9400.00 * 100 is 3.005 before rounding: the
\* doubles round it to 3.01 and the row is returned
C2_WitnessRounded ==
    /\ pc = "usd_returned"
    /\ \E i \in 1..Len(df.rows) :
          /\ df.rows[i].dividend_Rate = 28247
          /\ df.rows[i].Close = 940000
          /\ df.rows[i].dividend_percentage = 301
          /\ InOut(i)

\* a <= b on dates: every comparison with NaT is False
DateLe(a, b) == a # NaN /\ b # NaN /\ a <= b

\* C3 as stated: any two adjacent returned rows have ex-dividend dates in
\* ascending order (earlier <= later).
C3_AdjacentAscending ==
    pc = "usd_returned" =>
       \A j \in 1..(Len(out.rows) - 1) :
          DateLe(out.rows[j].dividend_Ex_Date, out.rows[j + 1].dividend_Ex_Date)

\* C3, amended: the returned rows that have an ex-dividend date are in
\* ascending order of it, and the rows whose date is missing (NaT, from a
\* text that is no date) come after all of them.
C3_AscendingNaTLast ==
    pc = "usd_returned" =>
       \A j, k \in 1..Len(out.rows) :
          j < k =>
             /\ out.rows[j].dividend_Ex_Date = NaN => out.rows[k].dividend_Ex_Date = NaN
             /\ (out.rows[j].dividend_Ex_Date # NaN /\ out.rows[k].dividend_Ex_Date # NaN)
                   => out.rows[j].dividend_Ex_Date <= out.rows[k].dividend_Ex_Date

\* two rows given in descending date order come back swapped
C3_Witness ==
    /\ pc = "usd_returned"
    /\ Len(out.rows) = 2
    /\ out.rows[1].index > out.rows[2].index
    /\ out.rows[1].dividend_Ex_Date # NaN
    /\ out.rows[1].dividend_Ex_Date < out.rows[2].dividend_Ex_Date

\* the history fetched for the i-th row, once the loop has passed it
Hist(i) == fetched[i].res.hist

Processed == { i \in 1..Len(fetched) : ~fetched[i].res.raised }

\* the six computed columns of a row
Computed(r) ==
    <<r.Close, r.Volume, r.SMA_50, r.close_5_days_ago, r.dividend_percentage,
      r.last_close_volume>>

\* rows of fewer than 6 observations keep their defaults and are not returned
ShortRowsDropped ==
    \A i \in Processed :
       Len(Hist(i)) < 6 =>
          /\ Computed(df.rows[i]) = <<0, 0, 0, 0, 0, 0>>
          /\ pc = "usd_returned" => ~InOut(i)

\* C4 as stated: fewer than 6 observations leave the defaults and drop the
\* row; exactly 6 give defined values for all six computed fields.
C4_SixObservationsDefined ==
    pc \in {"usd_loop", "usd_returned"} =>
       /\ ShortRowsDropped
       /\ \A i \in Processed :
             Len(Hist(i)) = 6 =>
                \A k \in 1..6 : Computed(df.rows[i])[k] # NaN

\* C4, amended: fewer than 6 observations leave the defaults and drop the
\* row; 6 or more set latest close, latest volume, close_5_days_ago and
\* dollar volume to defined values, the yield to a defined value unless the
\* latest close and the rate are both 0, and the moving average to a defined
\* value only from 50 observations on: below that it is missing.
C4_DefinedButAverage ==
    pc \in {"usd_loop", "usd_returned"} =>
       /\ ShortRowsDropped
       /\ \A i \in Processed :
             Len(Hist(i)) >= 6 =>
                LET r == df.rows[i]
                    h == Hist(i)
                IN  /\ r.Close = h[Len(h)].Close /\ r.Close # NaN
                    /\ r.Volume = h[Len(h)].Volume /\ r.Volume # NaN
                    /\ r.close_5_days_ago # NaN
                    /\ r.last_close_volume # NaN
                    /\ r.dividend_percentage = NaN
                          <=> (r.Close = 0 /\ r.dividend_Rate = 0)
                    /\ r.SMA_50 = NaN <=> Len(h) < 50

\* a row of 5 observations and a row of 6 in one table
C4_Witness ==
    /\ pc = "usd_returned"
    /\ \E i, k \in Processed :
          /\ Len(Hist(i)) = 5
          /\ Len(Hist(k)) = 6
          /\ df.rows[k].SMA_50 = NaN
          /\ df.rows[k].Close > 0

\* C9: close_5_days_ago is the close 5 observations before the latest one,
\* and roc_5_pos says whether the latest close is above it.
C9_FiveBeforeLatest ==
    pc \in {"usd_loop", "usd_returned"} =>
       \A i \in Processed :
          Len(Hist(i)) >= 6 =>
             LET h == Hist(i) IN
             /\ df.rows[i].close_5_days_ago = h[Len(h) - 5].Close
             /\ pc = "usd_returned" =>
                   df.rows[i].roc_5_pos = (h[Len(h)].Close > h[Len(h) - 5].Close)

\* the history fetch of the i-th row failed: it raised, or gave no data
Failed(i) == fetched[i].res.raised \/ Hist(i) = <<>>

\* C7: a failed history fetch never aborts the batch: the call goes on to
\* fetch every other row and returns, and it returns the rows that pass the
\* thresholds among those whose fetch did not fail.
C7_FailureIsolated ==
    (\E i \in 1..Len(fetched) : Failed(i)) =>
       /\ pc \in {"usd_loop", "usd_returned"}
       /\ pc = "usd_returned" =>
             /\ Len(fetched) = Len(df.rows)
             /\ \A i \in 1..Len(df.rows) :
                   InOut(i) <=> (~Failed(i) /\ KeepRow(df.rows[i]))

\* every weekday of the window was fetched and every fetch returned an
\* empty table
AllDaysEmpty ==
    /\ pc \notin {"main", "abd_loop", "abd_returned", "gdd_loop"}
    /\ gd_date > end_date
    /\ calls # <<>>
    /\ ~df.cols

\* C6: when every calendar fetch of the window is empty the pipeline ends
\* normally, with an empty report.
C6_EmptyCalendarCompletes ==
    AllDaysEmpty =>
       /\ pc # "error"
       /\ pc = "done" => report = <<>>

\* C10: the window main scans starts no later than it ends and holds at
\* least 10 and at most 12 weekdays, so get_dividend_days fetches at least
\* once (10 to 12 times when no fetch raises) and never concatenates an
\* empty list.
C10_WindowHasWeekdays ==
    pc \notin {"main", "abd_loop", "abd_returned"} =>
       /\ range_start <= end_date
       /\ Cardinality(WeekdaysIn(range_start, end_date)) \in 10..12
       /\ pc # "gdd_loop" => calls # <<>>
       /\ gd_date > end_date => Len(calls) \in 10..12
       /\ (pc = "gdd_loop" /\ gd_date > end_date) => dfs # <<>>
       /\ err # "ValueError"

\* today is a Sunday: the window holds exactly 10 weekdays
C10_Witness ==
    /\ pc = "gdd_returned"
    /\ weekday(today) = 6
    /\ Len(calls) = 10

====
